---- MODULE Spec2Model ----
(***************************************************************************)
(* Model of the Thunderbird MCP bridge.                                    *)
(*                                                                         *)
(*   server/server.ts      the bridge: the single current connection, the  *)
(*                         table of pending requests, the deadline timers  *)
(*   addon/background.js   the worker: connect, reconnect, heartbeat       *)
(*                                                                         *)
(* Spec       is the bridge; the worker is its environment and may send    *)
(*            any frame on any connection that is not yet closed.          *)
(* LiveSpec   is Spec with the runtime's guarantee that an armed timer     *)
(*            fires.                                                       *)
(* WorkerSpec is the worker's connection life cycle; the bridge is its     *)
(*            environment (a socket may open, fail or close at any time).  *)
(*                                                                         *)
(* Time is abstracted: a timer is armed or not, and an armed timer may     *)
(* fire at any moment.  Timestamps in frames are left out.  The wire is    *)
(* not kept: outbox and wOutbox hold the frames the last handler sent.     *)
(***************************************************************************)
EXTENDS Integers, Sequences, FiniteSets, TLC

(***************************************************************************)
(* Bounds of the model.                                                    *)
(***************************************************************************)
MaxConn == 2       \* connections the bridge accepts
MaxReq == 2        \* calls of sendCommandToThunderbird
MaxAttempts == 4   \* calls of connectToCC the worker makes
MaxCmds == 2       \* command frames the worker dispatches
MaxNodes == 4      \* parts in the tree of a message
MaxFiles == 2      \* attachments in one result of read_email_attachments

(***************************************************************************)
(* Program constants.                                                      *)
(***************************************************************************)
DefaultTimeout == 30000
SearchTimeout == 60000
NormalClosure == 1000
RECONNECT_INTERVAL == 5000
HEARTBEAT_INTERVAL == 30000

KickReason == "New client connected"
NoClientError == "No Thunderbird client connected. Make sure the addon is loaded."
TimeoutError == "Request timeout"
SendError == "send failed"

(***************************************************************************)
(* Values.  JavaScript's undefined/null is written as 0 for identifiers    *)
(* and handles and as "" for strings; both are falsy in the source too.    *)
(***************************************************************************)
Undefined == ""
ConnIds == 1..MaxConn
ReqIds == 1..MaxReq
AddonIds == {"addon@a"}
Payloads == {"{success:true}", "{success:false}"}
CmdTypes == {"list_accounts", "search_emails"}

\* a frame on the wire, bridge <-> worker; clientId is the field of the
\* welcome frame's payload
Frame(t, rid, aid, p) ==
    [type |-> t, requestId |-> rid, addonId |-> aid, payload |-> p, clientId |-> 0]

\* the text frames the worker side may deliver: JSON of a frame, or text
\* that JSON.parse rejects
ClientMessages ==
    { [parses |-> TRUE, data |-> Frame("register", 0, a, Undefined)] : a \in AddonIds }
    \cup { [parses |-> TRUE, data |-> Frame("heartbeat", 0, Undefined, Undefined)] }
    \cup { [parses |-> TRUE, data |-> Frame("response", r, Undefined, p)] :
              r \in 0..MaxReq, p \in Payloads }
    \cup { [parses |-> TRUE, data |-> Frame("bogus", 0, Undefined, Undefined)] }
    \cup { [parses |-> FALSE, data |-> Frame(Undefined, 0, Undefined, Undefined)] }

VARIABLES
    \* ---- bridge (server.ts) ----
    currentClient,     \* the current connection, or null
    pendingRequests,   \* requestId -> [resolve, reject, timeout]
    timers,            \* armed setTimeout handles -> delay
    promise,           \* call -> state and value of the future it returned
    settleCalls,       \* call -> how often its resolve/reject was invoked
    connState,         \* connection -> "unused" | "open" | "closing" | "closed"
    outbox,            \* the frames the last handler sent, with their connection
    closeCalls,        \* ws.close(code, reason) calls the bridge made
    lastEvent,         \* the handler that ran last, with its input
    \* ---- worker (background.js) ----
    ws,                \* the worker's socket, 0 when null
    readyState,        \* socket -> "none" | "CONNECTING" | "OPEN" | "CLOSED"
    reconnectTimeout,  \* handle stored by the worker, 0 when null
    heartbeatInterval, \* handle stored by the worker, 0 when null
    wTimeouts,         \* armed setTimeout handles of the worker -> delay
    wIntervals,        \* armed setInterval handles of the worker -> period
    nextHandle,        \* handles handed out so far by setTimeout/setInterval
    wOutbox,           \* the frames the last worker handler sent, with their socket
    attempts,          \* calls of connectToCC so far; call a creates socket a
    wLast,             \* the worker handler that ran last
    wIn,               \* the text frame the last worker handler received
    execs,             \* command -> its type, requestId, progress and responses sent
    \* ---- tool front-end (server.ts, CallTool handler) ----
    toolCalls,         \* call -> the tool whose handler made it
    lastTool,          \* the last step of a CallTool handler, with its input or result
    \* ---- worker, read_email handler (background_handlers.js) ----
    part,              \* the tree of message parts of the message being read
    extracted,         \* what extractTextFromPart returned for it, once it ran
    \* ---- tool front-end, case "read_email_attachments" (server.ts) ----
    download,          \* downloadPath, the attachments the worker returned, and
                       \* the write that fails, if any
    disk,              \* file path -> bytes, for the files the handler wrote
    savedFiles,        \* what the handler returned: the files it reports
    \* ---- the wire, as far as a property needs its past ----
    sentOn,            \* call -> the connection its command frame was sent on
    arrivedOn          \* command -> the worker socket it arrived on

bridgeVars == <<currentClient, pendingRequests, timers, promise, settleCalls,
                connState, outbox, closeCalls, lastEvent>>
workerVars == <<ws, readyState, reconnectTimeout, heartbeatInterval, wTimeouts,
                wIntervals, nextHandle, wOutbox, attempts, wLast, wIn, execs>>
vars == <<currentClient, pendingRequests, timers, promise, settleCalls,
          connState, outbox, closeCalls, lastEvent,
          ws, readyState, reconnectTimeout, heartbeatInterval, wTimeouts,
          wIntervals, nextHandle, wOutbox, attempts, wLast, wIn, execs,
          toolCalls, lastTool, part, extracted,
          download, disk, savedFiles, sentOn, arrivedOn>>
toolVars == <<toolCalls, lastTool>>
partVars == <<part, extracted>>
fileVars == <<download, disk, savedFiles>>
histVars == <<sentOn, arrivedOn>>

(***************************************************************************)
(* Helpers for Map, timers and promises.                                   *)
(***************************************************************************)
MapSet(m, k, v) == [x \in DOMAIN m \cup {k} |-> IF x = k THEN v ELSE m[x]]
\* variant: a delete that removes nothing
MapDelete_noop(m, k) == m

MapDelete(m, k) == [x \in DOMAIN m \ {k} |-> m[x]]
EmptyMap == [x \in {} |-> 0]

\* setTimeout(cb, delay): the handle becomes armed
SetTimeout(ts, h, delay) == MapSet(ts, h, delay)
\* clearTimeout(h): no effect when h is not armed
ClearTimeout(ts, h) == MapDelete(ts, h)

\* a Promise settles on the first call of resolve or reject; later calls
\* are ignored by the runtime
Settle(ps, k, st, v) ==
    IF ps[k].state = "pending" THEN [ps EXCEPT ![k] = [state |-> st, value |-> v]]
    ELSE ps

null == [id |-> 0, addonId |-> Undefined]

NoMsg == [parses |-> FALSE, data |-> Frame("none", 0, Undefined, Undefined)]
Event(op, c, k, m) == [op |-> op, conn |-> c, call |-> k, msg |-> m]

(***************************************************************************)
(* The bridge: server.ts                                                   *)
(***************************************************************************)
Accepted == {c \in ConnIds : connState[c] # "unused"}
Issued == {k \in ReqIds : promise[k].state # "unissued"}

\* JSON.stringify of the frames the bridge sends
\* variant: a welcome that names no client
WelcomeFrame_anon(id) == Frame("welcome", 0, Undefined, "timestamp")

\* the welcome frame of websocket.open
WelcomeFrame(id) == [Frame("welcome", 0, Undefined, "timestamp") EXCEPT !.clientId = id]
RegisteredFrame == Frame("registered", 0, Undefined, "success:true")
HeartbeatAckFrame == Frame("heartbeat_ack", 0, Undefined, "timestamp")
CommandFrame(t, rid) == Frame(t, rid, Undefined, "args")

\* ws.send(text) on a connection: the frame is handed to the socket
WsSend(out, c, f) == Append(out, [conn |-> c, frame |-> f])

\* variant: the previous client is not closed
KickPrevious_none(cur) == {}

\* open(ws), "Kick away any existing client": the close calls it makes
KickPrevious(cur) ==
    IF cur # null
    THEN {[id |-> cur.id, code |-> NormalClosure, reason |-> KickReason]}
    ELSE {}

\* variant: any connection's frames are handled while some client is current
FromCurrent_any(cur, id) == cur # null

\* message(ws, message), first line: is the frame from the current client
FromCurrent(cur, id) == cur # null /\ cur.id = id

\* variant: a close event never clears the slot
CloseClears_never(cur, id) == FALSE

\* variant: any close event clears the slot
CloseClears_any(cur, id) == cur # null

\* close(ws): does this close event clear the slot
CloseClears(cur, id) == cur # null /\ cur.id = id

\* variant: the connection check is missing
NoClient_never(cur) == FALSE

\* sendCommandToThunderbird, first check
NoClient(cur) == cur = null

\* the entry with the least key
FirstEntry(table) == table[CHOOSE x \in DOMAIN table : \A y \in DOMAIN table : x <= y]

\* pendingRequests.get(id): the entry, or "no entry" (requestId 0)
NoEntry == [resolve |-> 0, reject |-> 0, timeout |-> 0]
\* variant: the lookup ignores the id
PendingGet_first(table, id) == IF DOMAIN table # {} THEN FirstEntry(table) ELSE [resolve |-> 0, reject |-> 0, timeout |-> 0]
\* variant: a miss falls back to the oldest entry
PendingGet_fallback(table, id) ==
    IF id \in DOMAIN table THEN table[id]
    ELSE IF DOMAIN table # {} THEN FirstEntry(table) ELSE [resolve |-> 0, reject |-> 0, timeout |-> 0]
PendingGet(table, id) == IF id \in DOMAIN table THEN table[id] ELSE NoEntry

\* variant: every call site leaves the timeout to the default
TimeoutOf_default(t) == DefaultTimeout

\* the timeout every call site passes: search_emails 60000, the others the
\* default
TimeoutOf(t) == IF t = "search_emails" THEN SearchTimeout ELSE DefaultTimeout

\* variant: the new client record takes over the identity of the old one
NewClient_inherit(cur, c) == [id |-> c, addonId |-> cur.addonId]

\* fetch, path /status: the JSON the endpoint answers with (uptime and
\* connectedAt, which are times, left out)
status(cur) ==
    [connected |-> cur # null,
     client |-> IF cur # null THEN [id |-> cur.id, addonId |-> cur.addonId] ELSE null]

\* websocket.open, "const client": the record of a connection just
\* accepted; addonId is not set
NewClient(cur, c) == [id |-> c, addonId |-> Undefined]

\* variant: accepting a connection drops the requests sent on earlier ones
open_forgetting(c) ==
    /\ connState[c] = "unused"
    /\ c = Cardinality(Accepted) + 1
    /\ LET kicks == KickPrevious(currentClient) IN
        /\ closeCalls' = closeCalls \cup kicks
        /\ connState' = [x \in ConnIds |->
                           IF x = c THEN "open"
                           ELSE IF (\E k \in kicks : k.id = x) /\ connState[x] = "open"
                                THEN "closing"
                                ELSE connState[x]]
    /\ currentClient' = NewClient(currentClient, c)
    /\ outbox' = WsSend(<<>>, c, WelcomeFrame(c))
    /\ lastEvent' = Event("open", c, 0, NoMsg)
    /\ pendingRequests' = EmptyMap
    /\ timers' = EmptyMap
    /\ UNCHANGED <<promise, settleCalls>>
    /\ UNCHANGED workerVars

\* websocket.open
open(c) ==
    /\ connState[c] = "unused"
    /\ c = Cardinality(Accepted) + 1
    /\ LET kicks == KickPrevious(currentClient) IN
        /\ closeCalls' = closeCalls \cup kicks
        /\ connState' = [x \in ConnIds |->
                           IF x = c THEN "open"
                           ELSE IF (\E k \in kicks : k.id = x) /\ connState[x] = "open"
                                THEN "closing"
                                ELSE connState[x]]
    /\ currentClient' = NewClient(currentClient, c)
    /\ outbox' = WsSend(<<>>, c, WelcomeFrame(c))
    /\ lastEvent' = Event("open", c, 0, NoMsg)
    /\ UNCHANGED <<pendingRequests, timers, promise, settleCalls>>
    /\ UNCHANGED workerVars

\* variant: a frame that is not handled costs the connection its place
Dropped_reset ==
    /\ outbox' = <<>>
    /\ currentClient' = null
    /\ UNCHANGED <<pendingRequests, timers, promise, settleCalls>>

\* websocket.message returns without any effect
Dropped ==
    /\ outbox' = <<>>
    /\ UNCHANGED <<currentClient, pendingRequests, timers, promise, settleCalls>>

\* websocket.message, case "register"
RegisterCase(c, data) ==
    /\ currentClient' = [currentClient EXCEPT !.addonId = data.addonId]
    /\ outbox' = WsSend(<<>>, c, RegisteredFrame)
    /\ UNCHANGED <<pendingRequests, timers, promise, settleCalls>>

\* variant: a heartbeat is taken in silence
HeartbeatCase_silent(c) ==
    /\ outbox' = <<>>
    /\ UNCHANGED <<currentClient, pendingRequests, timers, promise, settleCalls>>

\* websocket.message, case "heartbeat"
HeartbeatCase(c) ==
    /\ outbox' = WsSend(<<>>, c, HeartbeatAckFrame)
    /\ UNCHANGED <<currentClient, pendingRequests, timers, promise, settleCalls>>

\* variant: the response case leaves the deadline timer armed
ResponseTimers_keep(ts, pending) == ts

\* variant: the response case cancels every timer
ResponseTimers_all(ts, pending) == EmptyMap

\* the timers after the response case has run for entry pending
ResponseTimers(ts, pending) == ClearTimeout(ts, pending.timeout)

\* websocket.message, case "response"
ResponseCase(data) ==
    LET pending == PendingGet(pendingRequests, data.requestId) IN
    IF data.requestId # 0 /\ pending # NoEntry
    THEN /\ timers' = ResponseTimers(timers, pending)
         /\ promise' = Settle(promise, pending.resolve, "resolved", data.payload)
         /\ settleCalls' = [settleCalls EXCEPT ![pending.resolve] = @ + 1]
         /\ pendingRequests' = MapDelete(pendingRequests, data.requestId)
         /\ outbox' = <<>>
         /\ UNCHANGED currentClient
    ELSE Dropped

\* websocket.message
message(c, m) ==
    /\ connState[c] \in {"open", "closing"}
    /\ lastEvent' = Event("message", c, 0, m)
    /\ IF ~FromCurrent(currentClient, c) THEN Dropped
       ELSE IF ~m.parses THEN Dropped     \* JSON.parse throws, the catch logs
       ELSE IF m.data.type = "register" THEN RegisterCase(c, m.data)
       ELSE IF m.data.type = "heartbeat" THEN HeartbeatCase(c)
       ELSE IF m.data.type = "response" THEN ResponseCase(m.data)
       ELSE Dropped                       \* default: logs
    /\ UNCHANGED <<connState, closeCalls>>
    /\ UNCHANGED workerVars

\* variant: the close event of the current connection also rejects and
\* drops every pending request
close_rejecting(c) ==
    /\ connState[c] \in {"open", "closing"}
    /\ connState' = [connState EXCEPT ![c] = "closed"]
    /\ lastEvent' = Event("close", c, 0, NoMsg)
    /\ IF currentClient # null /\ currentClient.id = c
       THEN /\ currentClient' = null
            /\ pendingRequests' = EmptyMap
            /\ timers' = EmptyMap
            /\ promise' = [k \in ReqIds |->
                             IF k \in DOMAIN pendingRequests
                             THEN [state |-> "rejected", value |-> "Connection lost"]
                             ELSE promise[k]]
            /\ settleCalls' = [k \in ReqIds |->
                                 IF k \in DOMAIN pendingRequests THEN settleCalls[k] + 1
                                 ELSE settleCalls[k]]
       ELSE UNCHANGED <<currentClient, pendingRequests, timers, promise, settleCalls>>
    /\ outbox' = <<>>
    /\ UNCHANGED closeCalls
    /\ UNCHANGED workerVars

\* websocket.close: the close event of connection c, whether the peer went
\* away or the bridge closed it
close(c) ==
    /\ connState[c] \in {"open", "closing"}
    /\ connState' = [connState EXCEPT ![c] = "closed"]
    /\ currentClient' = IF CloseClears(currentClient, c) THEN null ELSE currentClient
    /\ lastEvent' = Event("close", c, 0, NoMsg)
    /\ outbox' = <<>>
    /\ UNCHANGED <<pendingRequests, timers, promise, settleCalls, closeCalls>>
    /\ UNCHANGED workerVars

\* variant: the deadline callback leaves the entry in the table
TimeoutTable_keep(table, r) == table

\* the table after the deadline callback of request r has run
TimeoutTable(table, r) == MapDelete(table, r)

\* the callback armed by sendCommandToThunderbird for request r fires
timeoutTimer(r) ==
    /\ r \in DOMAIN timers
    /\ timers' = MapDelete(timers, r)
    /\ pendingRequests' = TimeoutTable(pendingRequests, r)
    /\ promise' = Settle(promise, r, "rejected", TimeoutError)
    /\ settleCalls' = [settleCalls EXCEPT ![r] = @ + 1]
    /\ lastEvent' = Event("timeout", 0, r, NoMsg)
    /\ outbox' = <<>>
    /\ UNCHANGED <<currentClient, connState, closeCalls>>
    /\ UNCHANGED workerVars

\* variant: an id generator that returns the same id every time
randomUUID_fixed(k) == 1

\* crypto.randomUUID() in the k-th call: an id no earlier call drew,
\* written k
randomUUID(k) == k

\* variant: the catch does not reject
SendFailed_silent(ps, k) == ps

\* the catch of sendCommandToThunderbird: what the caller is rejected with
SendFailed(ps, k) == Settle(ps, k, "rejected", SendError)

\* variant: the catch leaves the deadline timer armed
SendFailedTimers_keep(ts, h) == ts

\* the catch of sendCommandToThunderbird: the timers after clearTimeout
SendFailedTimers(ts, h) == ClearTimeout(ts, h)

\* sendCommandToThunderbird(command, timeout); throws: ws.send raises.
\* The k-th call draws the request id k from crypto.randomUUID(), an id
\* no earlier call drew; its timer handle is written k as well.
sendCommandToThunderbird(t, timeout, throws) ==
    /\ Cardinality(Issued) < MaxReq
    /\ LET k == Cardinality(Issued) + 1
           requestId == randomUUID(k)
           created == [promise EXCEPT ![k] = [state |-> "pending", value |-> Undefined]]
       IN
        IF NoClient(currentClient)
        THEN /\ promise' = Settle(created, k, "rejected", NoClientError)
             /\ settleCalls' = [settleCalls EXCEPT ![k] = @ + 1]
             /\ lastEvent' = Event("send", 0, k, NoMsg)
             /\ outbox' = <<>>
             /\ UNCHANGED <<pendingRequests, timers>>
        ELSE LET armed == SetTimeout(timers, k, timeout)
                 registered == MapSet(pendingRequests, requestId,
                                      [resolve |-> k, reject |-> k, timeout |-> k])
             IN
             IF ~throws /\ currentClient # null
             THEN /\ outbox' = WsSend(<<>>, currentClient.id, CommandFrame(t, requestId))
                  /\ timers' = armed
                  /\ pendingRequests' = registered
                  /\ promise' = created
                  /\ lastEvent' = Event("send", currentClient.id, k, NoMsg)
                  /\ UNCHANGED settleCalls
             ELSE /\ timers' = SendFailedTimers(armed, k)
                  /\ pendingRequests' = MapDelete(registered, requestId)
                  /\ promise' = SendFailed(created, k)
                  /\ settleCalls' = [settleCalls EXCEPT ![k] = @ + 1]
                  /\ lastEvent' = Event("sendfail", currentClient.id, k, NoMsg)
                  /\ outbox' = <<>>
    /\ UNCHANGED <<currentClient, connState, closeCalls>>
    /\ UNCHANGED workerVars

BridgeInit ==
    /\ currentClient = null
    /\ pendingRequests = EmptyMap
    /\ timers = EmptyMap
    /\ promise = [k \in ReqIds |-> [state |-> "unissued", value |-> Undefined]]
    /\ settleCalls = [k \in ReqIds |-> 0]
    /\ connState = [c \in ConnIds |-> "unused"]
    /\ outbox = <<>>
    /\ closeCalls = {}
    /\ lastEvent = Event("init", 0, 0, NoMsg)

Open == \E c \in ConnIds : open(c) /\ UNCHANGED <<toolVars, partVars, fileVars, histVars>>
Message == \E c \in ConnIds, m \in ClientMessages : message(c, m) /\ UNCHANGED <<toolVars, partVars, fileVars, histVars>>
Close == \E c \in ConnIds : close(c) /\ UNCHANGED <<toolVars, partVars, fileVars, histVars>>
Timeout == \E r \in ReqIds : timeoutTimer(r) /\ UNCHANGED <<toolVars, partVars, fileVars, histVars>>
Send == \E t \in CmdTypes, throws \in BOOLEAN :
    sendCommandToThunderbird(t, TimeoutOf(t), throws) /\ UNCHANGED <<toolVars, partVars, fileVars, histVars>>

(***************************************************************************)
(* The tool front-end: server.ts, the CallTool request handler             *)
(***************************************************************************)
\* a tool whose case awaits sendCommandToThunderbird and returns the
\* result as text, with a required field, and a name the switch does not
\* know
KnownTools == {"read_email_raw"}
\* the names a call may carry: a known tool and two names the switch does
\* not know, one of them containing the text the catch looks for
ToolNames == KnownTools \cup {"no_such_tool", "No Thunderbird client"}

\* inputSchema.required of a tool
Required(name) == IF name = "read_email_raw" THEN {"messageId"} ELSE {}

\* the arguments of a call, as the set of fields present
ToolArgs == {{}, {"messageId"}}

NoClientHint == "Make sure the Thunderbird addon is loaded and connected to the C&C server"
\* variant: the default case throws a message without the name
UnknownTool_bare(name) == "Unknown tool"

\* `Unknown tool: ${name}`, the message the default case throws
UnknownTool(name) ==
    IF name = "No Thunderbird client" THEN "Unknown tool: No Thunderbird client"
    ELSE "Unknown tool: no_such_tool"

\* errorMessage.includes("No Thunderbird client"), over the messages of the
\* model
IncludesNoClient(msg) == msg \in {NoClientError, "Unknown tool: No Thunderbird client"}

NoEnvelope == [isError |-> FALSE, result |-> Undefined, error |-> Undefined, hint |-> Undefined]

\* the return of a case: the result, whatever it says, as one text item
ResultEnvelope(result) ==
    [isError |-> FALSE, result |-> result, error |-> Undefined, hint |-> Undefined]

\* variant: the catch returns an envelope without isError
ErrorEnvelope_plain(msg) ==
    [isError |-> FALSE, result |-> Undefined, error |-> msg,
     hint |-> IF IncludesNoClient(msg) THEN NoClientHint ELSE Undefined]

\* the return of the catch
ErrorEnvelope(msg) ==
    [isError |-> TRUE, result |-> Undefined, error |-> msg,
     hint |-> IF IncludesNoClient(msg) THEN NoClientHint ELSE Undefined]

\* the envelope the handler returns once the future p it awaits has
\* settled: the case returns, or the await throws and the catch returns
Returned(p) ==
    IF p.state = "resolved" THEN ResultEnvelope(p.value) ELSE ErrorEnvelope(p.value)

\* threw: the HTML conversion of read_email raised in this step
ToolEvent(op, name, args, k, env) ==
    [op |-> op, name |-> name, args |-> args, call |-> k, envelope |-> env,
     threw |-> FALSE]

ToolInit ==
    /\ toolCalls = [k \in ReqIds |-> Undefined]
    /\ lastTool = ToolEvent("init", Undefined, {}, 0, NoEnvelope)

\* the handler up to its await: the switch either throws for a name it
\* does not know, and the catch returns, or calls sendCommandToThunderbird
\* with whatever arguments came; if the call is rejected at once, the
\* handler resumes and returns before any other event is handled
callTool(name, args, throws) ==
    IF name \notin KnownTools
    THEN /\ lastTool' = ToolEvent("return", name, args, 0, ErrorEnvelope(UnknownTool(name)))
         /\ lastEvent' = Event("tool", 0, 0, NoMsg)
         /\ outbox' = <<>>
         /\ UNCHANGED <<currentClient, pendingRequests, timers, promise, settleCalls,
                        connState, closeCalls, toolCalls>>
         /\ UNCHANGED <<workerVars, partVars, fileVars, histVars>>
    ELSE LET k == Cardinality(Issued) + 1 IN
         /\ sendCommandToThunderbird(name, TimeoutOf(name), throws)
         /\ toolCalls' = [toolCalls EXCEPT ![k] = name]
         /\ lastTool' = IF promise'[k].state = "pending"
                        THEN ToolEvent("call", name, args, k, NoEnvelope)
                        ELSE ToolEvent("return", name, args, k, Returned(promise'[k]))
         /\ UNCHANGED <<partVars, fileVars, histVars>>

\* the handler after its await: when a step of the bridge settles the
\* future of a tool call, the handler resumes and returns before any other
\* event is handled
callToolReturn ==
    LET done == {k \in ReqIds : /\ toolCalls[k] # Undefined
                                /\ promise[k].state = "pending"
                                /\ promise'[k].state # "pending"} IN
    /\ lastTool' = IF done = {} THEN lastTool
                   ELSE LET k == CHOOSE x \in done : TRUE IN
                        ToolEvent("return", toolCalls[k], {}, k, Returned(promise'[k]))
    /\ UNCHANGED <<toolCalls, partVars, fileVars, histVars>>

CallTool == \E name \in ToolNames, args \in ToolArgs, throws \in BOOLEAN :
    callTool(name, args, throws)

\* ---- case "read_email" ----
\* result payloads of read_email, field by field: message is "object" or
\* "absent"; body is a string or NotAString; isHtml is "true", "false" or
\* "absent"
NotAString == "(not a string)"
HtmlBody == "<p>hi</p>"
EmailResult(ok, msg, body, html) ==
    [success |-> ok, message |-> msg, body |-> body, isHtml |-> html]
EmailPayloads ==
    {EmailResult("true", "object", HtmlBody, "true"),
     EmailResult("true", "object", "hi", "false"),
     EmailResult("true", "object", NotAString, "true"),
     EmailResult("false", "absent", NotAString, "absent")}

\* variant: a conversion that returns its input
turndown_verbatim(html) == html

\* turndownService.turndown(html): the markdown of the HTML text
turndown(html) == IF html = HtmlBody THEN "hi" ELSE html

\* the if around the conversion: the payload has a message whose isHtml is
\* truthy
MarkedHtml(result) == result.message = "object" /\ result.isHtml = "true"

\* the if inside the try: the message has a body and it is a string
Convertible(result) == MarkedHtml(result) /\ result.body # NotAString

\* "Convert HTML body to markdown if needed"; throws: turndown raises, and
\* the catch keeps the payload as it is
ConvertHtml(result, throws) ==
    IF Convertible(result) /\ ~throws
    THEN [result EXCEPT !.body = turndown(@), !.isHtml = "absent"]
    ELSE result

\* the handler of read_email up to its await
readEmail(args, throws) ==
    LET k == Cardinality(Issued) + 1 IN
    /\ sendCommandToThunderbird("read_email", TimeoutOf("read_email"), throws)
    /\ toolCalls' = [toolCalls EXCEPT ![k] = "read_email"]
    /\ lastTool' = IF promise'[k].state = "pending"
                   THEN ToolEvent("call", "read_email", args, k, NoEnvelope)
                   ELSE ToolEvent("return", "read_email", args, k, Returned(promise'[k]))
    /\ UNCHANGED <<partVars, fileVars, histVars>>

\* the handler of read_email after its await, in the step that settles its
\* future: the conversion, then the return; or the catch
readEmailReturn(throws) ==
    LET done == {k \in ReqIds : /\ toolCalls[k] = "read_email"
                                /\ promise[k].state = "pending"
                                /\ promise'[k].state # "pending"} IN
    /\ lastTool' =
         IF done = {} THEN lastTool
         ELSE LET k == CHOOSE x \in done : TRUE
                  p == promise'[k] IN
              IF p.state = "resolved"
              THEN [ToolEvent("return", "read_email", {}, k,
                              ResultEnvelope(ConvertHtml(p.value, throws)))
                       EXCEPT !.threw = throws /\ Convertible(p.value)]
              ELSE ToolEvent("return", "read_email", {}, k, ErrorEnvelope(p.value))
    /\ UNCHANGED <<toolCalls, partVars, fileVars, histVars>>

ReadEmail == readEmail({"messageId"}, FALSE)

(***************************************************************************)
(* The worker's read_email handler: background_handlers.js                 *)
(***************************************************************************)
\* a message part: contentType, body and the sequence of its sub-parts
Part(ct, body, parts) == [contentType |-> ct, body |-> body, parts |-> parts]

\* the content type and body a part may have: plain text, HTML, plain text
\* with an empty body, and a multipart container
PartKinds == {[contentType |-> "text/plain; charset=utf-8", body |-> "p"],
              [contentType |-> "text/html", body |-> "h"],
              [contentType |-> "text/plain; charset=utf-8", body |-> ""],
              [contentType |-> "multipart/mixed", body |-> ""]}

\* the trees of exactly n parts, and the sequences of trees of m parts in
\* all
RECURSIVE TreesOf(_), ForestsOf(_)
TreesOf(n) ==
    IF n = 0 THEN {}
    ELSE {Part(k.contentType, k.body, f) : k \in PartKinds, f \in ForestsOf(n - 1)}
ForestsOf(m) ==
    IF m = 0 THEN {<<>>}
    ELSE UNION {{<<t>> \o f : t \in TreesOf(j), f \in ForestsOf(m - j)} : j \in 1..m}

\* the trees browser.messages.getFull may return
Parts == UNION {TreesOf(n) : n \in 1..MaxNodes}

\* String.prototype.startsWith, over the content types of the model
StartsWith(str, prefix) ==
    \/ prefix = "text/plain" /\ str \in {"text/plain", "text/plain; charset=utf-8"}
    \/ prefix = "text/html" /\ str \in {"text/html", "text/html; charset=utf-8"}

\* what extractTextFromPart returns: null, or {text, html}
NoText == [found |-> FALSE, text |-> Undefined, html |-> FALSE]
Text(text, html) == [found |-> TRUE, text |-> text, html |-> html]

\* variant: the two ifs do not look at the body
OwnText_anyBody(p) ==
    IF p.contentType # Undefined /\ StartsWith(p.contentType, "text/plain")
    THEN Text(p.body, FALSE)
    ELSE IF p.contentType # Undefined /\ StartsWith(p.contentType, "text/html")
    THEN Text(p.body, TRUE)
    ELSE NoText

\* extractTextFromPart, the two ifs on the part itself
OwnText(p) ==
    IF p.contentType # Undefined /\ StartsWith(p.contentType, "text/plain") /\ p.body # ""
    THEN Text(p.body, FALSE)
    ELSE IF p.contentType # Undefined /\ StartsWith(p.contentType, "text/html") /\ p.body # ""
    THEN Text(p.body, TRUE)
    ELSE NoText

\* extractTextFromPart(part), and its loop over part.parts from index i on
RECURSIVE extractTextFromPart(_), SubpartsFrom(_, _)
extractTextFromPart(p) ==
    IF OwnText(p).found THEN OwnText(p) ELSE SubpartsFrom(p.parts, 1)
SubpartsFrom(parts, i) ==
    IF i > Len(parts) THEN NoText
    ELSE LET e == extractTextFromPart(parts[i]) IN
         IF e.found THEN e ELSE SubpartsFrom(parts, i + 1)

NoPart == Part(Undefined, "", <<>>)
NotRun == [ran |-> FALSE, result |-> NoText]

\* no message is being read
PartInit ==
    /\ part = NoPart
    /\ extracted = NotRun

\* "const extracted = extractTextFromPart(full)"
extract ==
    /\ ~extracted.ran
    /\ extracted' = [ran |-> TRUE, result |-> extractTextFromPart(part)]
    /\ UNCHANGED part
    /\ UNCHANGED <<bridgeVars, workerVars, toolVars, fileVars, histVars>>

(***************************************************************************)
(* The tool front-end, case "read_email_attachments": server.ts            *)
(***************************************************************************)
\* a path string, as its segments between "/" and whether it starts with "/"
Path(abs, segs) == [abs |-> abs, segs |-> segs]

\* args.downloadPath: "/dl" and "out/mail"
DownloadPaths == {Path(TRUE, <<"dl">>), Path(FALSE, <<"out", "mail">>)}
\* attachment.filename, as the worker reports it: "a.txt", "sub/b.txt",
\* "../a.txt" and "/etc/a.txt"
Filenames == {Path(FALSE, <<"a.txt">>), Path(FALSE, <<"sub", "b.txt">>),
              Path(FALSE, <<"..", "a.txt">>), Path(TRUE, <<"etc", "a.txt">>)}
\* attachment.data, base64 text as its characters: "aGk=" and "aGVsbG8="
Base64Texts == {<<"a", "G", "k", "=">>, <<"a", "G", "V", "s", "b", "G", "8", "=">>}

\* an element of result.attachments; valid: it passes the typeof tests of
\* the loop (an object with a string filename and string data)
Attachment(valid, filename, data) == [valid |-> valid, filename |-> filename, data |-> data]
Attachments ==
    {Attachment(TRUE, f, d) : f \in Filenames, d \in Base64Texts}
    \cup {Attachment(FALSE, Path(FALSE, <<>>), <<>>)}

\* one call: its downloadPath, the result the worker returned (success
\* and attachments), and the attachment whose mkdir or writeFile raises
\* (0: none does)
Download(dir, ok, atts, failAt) ==
    [downloadPath |-> dir, success |-> ok, attachments |-> atts, failAt |-> failAt]
Downloads ==
    {Download(dir, ok, atts, f) :
        dir \in DownloadPaths, ok \in BOOLEAN,
        atts \in UNION {[1..n -> Attachments] : n \in 0..MaxFiles},
        f \in 0..MaxFiles}

\* path.normalize, one segment: "." is dropped, ".." removes the segment
\* before it, is dropped at the root and kept at the start of a relative
\* path
NormalizeStep(acc, seg, abs) ==
    IF seg = "." THEN acc
    ELSE IF seg = ".."
         THEN IF acc # <<>> /\ acc[Len(acc)] # ".." THEN SubSeq(acc, 1, Len(acc) - 1)
              ELSE IF abs THEN acc
              ELSE Append(acc, "..")
         ELSE Append(acc, seg)

RECURSIVE normalizeString(_, _)
normalizeString(segs, abs) ==
    IF segs = <<>> THEN <<>>
    ELSE NormalizeStep(normalizeString(SubSeq(segs, 1, Len(segs) - 1), abs),
                       segs[Len(segs)], abs)

\* path.join(a, b) for a non-empty a: the two texts joined with "/" and
\* normalized; a leading "/" of b becomes a separator
join(a, b) == Path(a.abs, normalizeString(a.segs \o b.segs, a.abs))

\* Buffer.from(data, "base64").length: six bits for each character before
\* the padding
Base64Length(data) ==
    (Cardinality({j \in DOMAIN data : data[j] # "="}) * 3) \div 4

NoDownload == Download(Path(FALSE, <<>>), FALSE, <<>>, 0)
\* raw: the handler returned the worker's result as it came
NotSaved == [ran |-> FALSE, isError |-> FALSE, raw |-> FALSE, files |-> <<>>]

\* the loop over result.attachments from its i-th element on: the files on
\* disk and the entries of savedFiles when it ends or a write raises
RECURSIVE SaveLoop(_, _, _, _)
SaveLoop(dl, i, dsk, saved) ==
    IF i > Len(dl.attachments) THEN [disk |-> dsk, files |-> saved, failed |-> FALSE]
    ELSE LET attachment == dl.attachments[i] IN
         IF ~attachment.valid THEN SaveLoop(dl, i + 1, dsk, saved)
         ELSE IF dl.failAt = i THEN [disk |-> dsk, files |-> saved, failed |-> TRUE]
         ELSE LET filePath == join(dl.downloadPath, attachment.filename)
                  size == Base64Length(attachment.data)
              IN SaveLoop(dl, i + 1, MapSet(dsk, filePath, size),
                          Append(saved, [filename |-> attachment.filename,
                                         path |-> filePath, size |-> size]))

FileInit ==
    /\ download = NoDownload
    /\ disk = EmptyMap
    /\ savedFiles = NotSaved

\* case "read_email_attachments" after its await: a result without
\* success is returned as it came; otherwise the loop writes the files and
\* the handler reports them, or the catch returns an error when a write
\* raised
saveAttachments ==
    /\ ~savedFiles.ran
    /\ IF ~download.success
       THEN /\ savedFiles' = [ran |-> TRUE, isError |-> FALSE, raw |-> TRUE, files |-> <<>>]
            /\ UNCHANGED disk
       ELSE LET r == SaveLoop(download, 1, disk, <<>>) IN
            /\ disk' = r.disk
            /\ savedFiles' = IF r.failed
                             THEN [ran |-> TRUE, isError |-> TRUE, raw |-> FALSE,
                                   files |-> <<>>]
                             ELSE [ran |-> TRUE, isError |-> FALSE, raw |-> FALSE,
                                   files |-> r.files]
    /\ UNCHANGED download
    /\ UNCHANGED <<bridgeVars, workerVars, toolVars, partVars, histVars>>

(***************************************************************************)
(* The worker: background.js                                               *)
(***************************************************************************)
SocketIds == 1..MaxAttempts
CmdIds == 1..MaxCmds
NoExec == [type |-> Undefined, requestId |-> 0, status |-> "none", sent |-> 0]

LiveSockets == {s \in SocketIds : readyState[s] \in {"CONNECTING", "OPEN"}}

RegisterFrame == Frame("register", 0, "addon@a", "timestamp")
HeartbeatFrame == Frame("heartbeat", 0, Undefined, Undefined)

\* variant: the frame is handed to the socket whatever its state
sendToCC_always(out, sock, rs, f) == Append(out, [sock |-> sock, frame |-> f])

\* sendToCC(message): the frames sent afterwards; rs is readyState at the
\* time of the call
sendToCC(out, sock, rs, f) ==
    IF sock # 0 /\ rs[sock] = "OPEN" THEN Append(out, [sock |-> sock, frame |-> f]) ELSE out

\* variant: the running heartbeat is left running
StopHeartbeat_keep(ivs, hb) == ivs

\* "if (heartbeatInterval) clearInterval(heartbeatInterval)" of ws.onopen
\* and ws.onclose: the intervals still running afterwards
StopHeartbeat(ivs, hb) == IF hb # 0 THEN MapDelete(ivs, hb) ELSE ivs

\* variant: a close event never arms the reconnect timer
ArmsReconnect_never(rt) == FALSE

\* ws.onclose, "Attempt reconnection": does this close event arm a timer
ArmsReconnect(rt) == rt = 0

\* connectToCC(); throws: new WebSocket raises.  rs is readyState and tms
\* the armed timeouts when the call starts.
connectToCC(throws, rs, tms) ==
    /\ attempts' = attempts + 1
    /\ IF ~throws
       THEN /\ ws' = attempts + 1
            /\ readyState' = [rs EXCEPT ![attempts + 1] = "CONNECTING"]
            /\ wTimeouts' = tms
            /\ UNCHANGED <<reconnectTimeout, nextHandle>>
       ELSE /\ reconnectTimeout' = nextHandle + 1
            /\ nextHandle' = nextHandle + 1
            /\ wTimeouts' = SetTimeout(tms, nextHandle + 1, RECONNECT_INTERVAL)
            /\ readyState' = rs
            /\ UNCHANGED ws

\* as if the reconnect timer were an interval: it stays armed after firing
reconnectFire_interval(h, throws) ==
    /\ h \in DOMAIN wTimeouts
    /\ attempts < MaxAttempts
    /\ connectToCC(throws, readyState, wTimeouts)
    /\ wLast' = [op |-> "timer", sock |-> 0, error |-> FALSE, raised |-> Undefined]
    /\ wIn' = NoMsg
    /\ UNCHANGED execs
    /\ wOutbox' = <<>>
    /\ UNCHANGED <<heartbeatInterval, wIntervals>>
    /\ UNCHANGED <<bridgeVars, toolVars, partVars, fileVars, sentOn>>

\* the reconnect timer h fires and runs connectToCC
reconnectFire(h, throws) ==
    /\ h \in DOMAIN wTimeouts
    /\ attempts < MaxAttempts
    /\ connectToCC(throws, readyState, MapDelete(wTimeouts, h))
    /\ wLast' = [op |-> "timer", sock |-> 0, error |-> FALSE, raised |-> Undefined]
    /\ wIn' = NoMsg
    /\ UNCHANGED execs
    /\ wOutbox' = <<>>
    /\ UNCHANGED <<heartbeatInterval, wIntervals>>
    /\ UNCHANGED <<bridgeVars, toolVars, partVars, fileVars, sentOn>>

\* variant: an onopen that announces nothing
onopen_quiet(s) ==
    /\ readyState[s] = "CONNECTING"
    /\ readyState' = [readyState EXCEPT ![s] = "OPEN"]
    /\ wOutbox' = <<>>
    /\ heartbeatInterval' = nextHandle + 1
    /\ nextHandle' = nextHandle + 1
    /\ wIntervals' = MapSet(StopHeartbeat(wIntervals, heartbeatInterval),
                            nextHandle + 1, HEARTBEAT_INTERVAL)
    /\ wTimeouts' = IF reconnectTimeout # 0 THEN ClearTimeout(wTimeouts, reconnectTimeout)
                    ELSE wTimeouts
    /\ reconnectTimeout' = 0
    /\ wLast' = [op |-> "open", sock |-> s, error |-> FALSE, raised |-> Undefined]
    /\ wIn' = NoMsg
    /\ UNCHANGED execs
    /\ UNCHANGED <<ws, attempts>>
    /\ UNCHANGED <<bridgeVars, toolVars, partVars, fileVars, sentOn>>

\* ws.onopen of socket s
onopen(s) ==
    /\ readyState[s] = "CONNECTING"
    /\ readyState' = [readyState EXCEPT ![s] = "OPEN"]
    /\ wOutbox' = sendToCC(<<>>, ws, readyState', RegisterFrame)
    /\ heartbeatInterval' = nextHandle + 1
    /\ nextHandle' = nextHandle + 1
    /\ wIntervals' = MapSet(StopHeartbeat(wIntervals, heartbeatInterval),
                            nextHandle + 1, HEARTBEAT_INTERVAL)
    /\ wTimeouts' = IF reconnectTimeout # 0 THEN ClearTimeout(wTimeouts, reconnectTimeout)
                    ELSE wTimeouts
    /\ reconnectTimeout' = 0
    /\ wLast' = [op |-> "open", sock |-> s, error |-> FALSE, raised |-> Undefined]
    /\ wIn' = NoMsg
    /\ UNCHANGED execs
    /\ UNCHANGED <<ws, attempts>>
    /\ UNCHANGED <<bridgeVars, toolVars, partVars, fileVars, sentOn>>

\* socket s fails or closes: ws.onerror (when error) logs, then ws.onclose
onclose(s, error) ==
    /\ readyState[s] \in {"CONNECTING", "OPEN"}
    /\ readyState' = [readyState EXCEPT ![s] = "CLOSED"]
    /\ ws' = 0
    /\ wIntervals' = StopHeartbeat(wIntervals, heartbeatInterval)
    /\ heartbeatInterval' = 0
    /\ IF ArmsReconnect(reconnectTimeout)
       THEN /\ reconnectTimeout' = nextHandle + 1
            /\ nextHandle' = nextHandle + 1
            /\ wTimeouts' = SetTimeout(wTimeouts, nextHandle + 1, RECONNECT_INTERVAL)
       ELSE UNCHANGED <<reconnectTimeout, nextHandle, wTimeouts>>
    /\ wLast' = [op |-> "close", sock |-> s, error |-> error, raised |-> Undefined]
    /\ wIn' = NoMsg
    /\ UNCHANGED execs
    /\ wOutbox' = <<>>
    /\ UNCHANGED attempts
    /\ UNCHANGED <<bridgeVars, toolVars, partVars, fileVars, sentOn>>

\* the heartbeat interval h ticks
heartbeatTick(h) ==
    /\ h \in DOMAIN wIntervals
    /\ wOutbox' = sendToCC(<<>>, ws, readyState, HeartbeatFrame)
    /\ wLast' = [op |-> "beat", sock |-> 0, error |-> FALSE, raised |-> Undefined]
    /\ wIn' = NoMsg
    /\ UNCHANGED execs
    /\ UNCHANGED <<ws, readyState, reconnectTimeout, heartbeatInterval, wTimeouts,
                   wIntervals, nextHandle, attempts>>
    /\ UNCHANGED <<bridgeVars, toolVars, partVars, fileVars, sentOn>>

\* the command types handleCommand dispatches to a handler (one of the nine;
\* all nine take the same path through handleCommand)
KnownTypes == {"list_accounts"}
\* the control frames handleCommand only logs
SystemTypes == {"welcome", "registered", "heartbeat_ack"}

\* the text frames the bridge side may deliver to the worker; command i
\* carries the request id i or none
ServerMessages(i) ==
    { [parses |-> TRUE, data |-> Frame(t, r, Undefined, "args")] :
          t \in KnownTypes \cup {"frobnicate"}, r \in {0, i} }
    \cup { [parses |-> TRUE, data |-> Frame(t, 0, Undefined, "args")] : t \in SystemTypes }
    \cup { [parses |-> FALSE, data |-> Frame(Undefined, 0, Undefined, Undefined)] }

\* what a handler of the domain executor may do: return a result, return
\* a failure envelope, or raise an error with a message
Outcomes == {[raises |-> FALSE, success |-> TRUE, error |-> Undefined],
             [raises |-> FALSE, success |-> FALSE, error |-> "not found"],
             [raises |-> TRUE, success |-> FALSE, error |-> "boom"],
             [raises |-> TRUE, success |-> FALSE, error |-> "denied"]}

\* the payload of a response frame; the stack trace is left out
Result(ok, err, t) == [success |-> ok, error |-> err, commandType |-> t]

ResponseFrame(rid, p) ==
    [Frame("response", rid, Undefined, Undefined) EXCEPT !.payload = p]

\* the default case without the commandType field
UnknownResult_untagged(t) == Result(FALSE, "Unknown command type", Undefined)

\* handleCommand, default case: the result for a type it does not know
UnknownResult(t) == Result(FALSE, "Unknown command type", t)

\* handleCommand after the switch: "Send response with requestId for MCP"
Reply(out, sock, rs, rid, result) ==
    IF rid # 0 THEN sendToCC(out, sock, rs, ResponseFrame(rid, result)) ELSE out

\* a catch block that only logs
CatchReply_none(out, sock, rs, rid, msg) == out

\* variant: the catch answers with a fixed text
CatchReply_generic(out, sock, rs, rid, msg) ==
    IF rid # 0
    THEN sendToCC(out, sock, rs, ResponseFrame(rid, Result(FALSE, "Internal error", Undefined)))
    ELSE out

\* handleCommand, catch: the response for an error the handler raised
CatchReply(out, sock, rs, rid, msg) ==
    IF rid # 0 THEN sendToCC(out, sock, rs, ResponseFrame(rid, Result(FALSE, msg, Undefined)))
    ELSE out

\* the commands dispatched so far are 1..Dispatched
Dispatched == Cardinality({i \in CmdIds : execs[i].status # "none"})

\* ws.onmessage of socket s with text m, and handleCommand up to its first
\* await: a control frame is logged, an unknown type is answered at once,
\* a known type starts its handler
onmessage(s, m) ==
    /\ readyState[s] = "OPEN"
    /\ wLast' = [op |-> "message", sock |-> s, error |-> FALSE, raised |-> Undefined]
    /\ wIn' = m
    /\ IF ~m.parses \/ m.data.type \in SystemTypes
       THEN /\ wOutbox' = <<>>
            /\ UNCHANGED execs
       ELSE /\ Dispatched < MaxCmds
            /\ m \in ServerMessages(Dispatched + 1)
            /\ IF m.data.type \in KnownTypes
               THEN /\ execs' = [execs EXCEPT ![Dispatched + 1] =
                                    [type |-> m.data.type, requestId |-> m.data.requestId,
                                     status |-> "running", sent |-> 0]]
                    /\ wOutbox' = <<>>
               ELSE /\ wOutbox' = Reply(<<>>, ws, readyState, m.data.requestId,
                                        UnknownResult(m.data.type))
                    /\ execs' = [execs EXCEPT ![Dispatched + 1] =
                                    [type |-> m.data.type, requestId |-> m.data.requestId,
                                     status |-> "done", sent |-> Len(wOutbox')]]
    /\ UNCHANGED <<ws, readyState, reconnectTimeout, heartbeatInterval, wTimeouts,
                   wIntervals, nextHandle, attempts>>
    /\ UNCHANGED <<bridgeVars, toolVars, partVars, fileVars, sentOn>>

\* the handler awaited by handleCommand for command i finishes with
\* outcome o, and handleCommand runs to its end
handlerDone(i, o) ==
    /\ execs[i].status = "running"
    /\ wOutbox' = IF o.raises
                  THEN CatchReply(<<>>, ws, readyState, execs[i].requestId, o.error)
                  ELSE Reply(<<>>, ws, readyState, execs[i].requestId,
                             Result(o.success, o.error, Undefined))
    /\ execs' = [execs EXCEPT ![i].status = "done", ![i].sent = @ + Len(wOutbox')]
    /\ wLast' = [op |-> "done", sock |-> 0, error |-> o.raises,
                 raised |-> IF o.raises THEN o.error ELSE Undefined]
    /\ wIn' = NoMsg
    /\ UNCHANGED <<ws, readyState, reconnectTimeout, heartbeatInterval, wTimeouts,
                   wIntervals, nextHandle, attempts>>
    /\ UNCHANGED <<bridgeVars, toolVars, partVars, fileVars, sentOn>>

\* the globals as declared, before the script's last statement runs
WorkerInit ==
    /\ ws = 0
    /\ readyState = [s \in SocketIds |-> "none"]
    /\ reconnectTimeout = 0
    /\ heartbeatInterval = 0
    /\ wTimeouts = EmptyMap
    /\ wIntervals = EmptyMap
    /\ nextHandle = 0
    /\ wOutbox = <<>>
    /\ attempts = 0
    /\ wLast = [op |-> "init", sock |-> 0, error |-> FALSE, raised |-> Undefined]
    /\ wIn = NoMsg
    /\ execs = [i \in CmdIds |-> NoExec]

\* "Initialize C&C connection on startup": the script's last statement
load(throws) ==
    /\ attempts = 0
    /\ connectToCC(throws, readyState, wTimeouts)
    /\ wLast' = [op |-> "load", sock |-> 0, error |-> FALSE, raised |-> Undefined]
    /\ wIn' = NoMsg
    /\ UNCHANGED execs
    /\ wOutbox' = <<>>
    /\ UNCHANGED <<heartbeatInterval, wIntervals>>
    /\ UNCHANGED <<bridgeVars, toolVars, partVars, fileVars, sentOn>>

Load == \E throws \in BOOLEAN : load(throws) /\ UNCHANGED arrivedOn
ReconnectFire == \E h \in 1..(3 * MaxAttempts), throws \in BOOLEAN :
    reconnectFire(h, throws) /\ UNCHANGED arrivedOn
OnOpen == \E s \in SocketIds : onopen(s) /\ UNCHANGED arrivedOn
OnClose == \E s \in SocketIds, error \in BOOLEAN : onclose(s, error) /\ UNCHANGED arrivedOn
HeartbeatTick == \E h \in 1..(3 * MaxAttempts) : heartbeatTick(h) /\ UNCHANGED arrivedOn
OnMessage == \E s \in SocketIds, m \in ServerMessages(Dispatched + 1) :
    onmessage(s, m) /\ UNCHANGED arrivedOn
HandlerDone == \E i \in CmdIds, o \in Outcomes : handlerDone(i, o) /\ UNCHANGED arrivedOn

(***************************************************************************)
(* The wire's past: which connection carried a command frame, and which    *)
(* socket delivered a command to the worker.  The specifications that      *)
(* state a property about it record it; the others leave it as it starts.  *)
(***************************************************************************)
HistInit ==
    /\ sentOn = [k \in ReqIds |-> 0]
    /\ arrivedOn = [i \in CmdIds |-> 0]

(***************************************************************************)
(* Specifications.                                                         *)
(***************************************************************************)
Init == BridgeInit /\ WorkerInit /\ ToolInit /\ PartInit /\ FileInit /\ HistInit

Next == Open \/ Message \/ Close \/ Timeout \/ Send

Spec == Init /\ [][Next]_vars

\* Spec with one payload and one command type, and with the runtime's
\* guarantee that an armed timer fires
LiveMessages == {m \in ClientMessages : m.data.payload # "{success:false}"}
LiveMessage == \E c \in ConnIds, m \in LiveMessages : message(c, m) /\ UNCHANGED <<toolVars, partVars, fileVars, histVars>>
LiveSend == \E throws \in BOOLEAN :
    /\ sendCommandToThunderbird("list_accounts", TimeoutOf("list_accounts"), throws)
    /\ UNCHANGED <<toolVars, partVars, fileVars, histVars>>

LiveNext == Open \/ LiveMessage \/ Close \/ Timeout \/ LiveSend

LiveSpec == Init /\ [][LiveNext]_vars
            /\ \A r \in ReqIds : WF_vars(timeoutTimer(r) /\ UNCHANGED <<toolVars, partVars, fileVars, histVars>>)

WorkerNext == Load \/ ReconnectFire \/ OnOpen \/ OnClose \/ HeartbeatTick
                \/ OnMessage \/ HandlerDone

WorkerSpec == Init /\ [][WorkerNext]_vars

\* the bridge driven by tool calls; the worker side answers requests
ToolMessages == {m \in ClientMessages : m.parses /\ m.data.type = "response"
                                           /\ m.data.requestId # 0}
ToolMessage == \E c \in ConnIds, m \in ToolMessages : message(c, m) /\ callToolReturn
ToolTimeout == \E r \in ReqIds : timeoutTimer(r) /\ callToolReturn
ToolNext == Open \/ ToolMessage \/ Close \/ ToolTimeout \/ CallTool

ToolSpec == Init /\ [][ToolNext]_vars

\* the bridge driven by read_email calls; the worker side answers them
EmailMessages ==
    { [parses |-> TRUE, data |-> [Frame("response", r, Undefined, Undefined)
                                     EXCEPT !.payload = p]] :
          r \in ReqIds, p \in EmailPayloads }
EmailMessage == \E c \in ConnIds, m \in EmailMessages :
    \E throws \in IF Convertible(m.data.payload) THEN BOOLEAN ELSE {FALSE} :
        message(c, m) /\ readEmailReturn(throws)
EmailNext == Open \/ EmailMessage \/ Close \/ ReadEmail

EmailSpec == Init /\ [][EmailNext]_vars

\* the bridge with the connection of every command frame recorded; the
\* worker side answers requests, on whatever connection it has
HandoverMessage == \E c \in ConnIds, m \in ToolMessages :
    message(c, m) /\ UNCHANGED <<toolVars, partVars, fileVars, histVars>>
HandoverSend == \E throws \in BOOLEAN :
    /\ sendCommandToThunderbird("list_accounts", TimeoutOf("list_accounts"), throws)
    /\ sentOn' = [sentOn EXCEPT ![Cardinality(Issued) + 1] =
                     IF outbox' # <<>> THEN outbox'[1].conn ELSE 0]
    /\ UNCHANGED <<toolVars, partVars, fileVars, arrivedOn>>
HandoverNext == Open \/ HandoverMessage \/ Close \/ Timeout \/ HandoverSend

HandoverSpec == Init /\ [][HandoverNext]_vars

\* the worker with the socket of every command recorded; the bridge side
\* sends commands of a known type that carry a request id
LateMessages(i) == {m \in ServerMessages(i) : m.parses /\ m.data.type \in KnownTypes
                                                 /\ m.data.requestId # 0}
LateMessage == \E s \in SocketIds, m \in LateMessages(Dispatched + 1) :
    /\ onmessage(s, m)
    /\ arrivedOn' = [arrivedOn EXCEPT ![Dispatched + 1] = s]
LateNext == Load \/ ReconnectFire \/ OnOpen \/ OnClose \/ HeartbeatTick
              \/ LateMessage \/ HandlerDone

LateSpec == Init /\ [][LateNext]_vars

\* case "read_email_attachments" applied to each downloadPath and result
AttachInit ==
    /\ BridgeInit /\ WorkerInit /\ ToolInit /\ PartInit /\ HistInit
    /\ download \in Downloads
    /\ disk = EmptyMap
    /\ savedFiles = NotSaved
AttachNext == saveAttachments

AttachSpec == AttachInit /\ [][AttachNext]_vars

\* extractTextFromPart applied to each tree of parts
ReadInit ==
    /\ BridgeInit /\ WorkerInit /\ ToolInit /\ FileInit /\ HistInit
    /\ part \in Parts
    /\ extracted = NotRun
ReadNext == extract

ReadSpec == ReadInit /\ [][ReadNext]_vars

(***************************************************************************)
(* Properties.                                                             *)
(***************************************************************************)
Settled(k) == promise[k].state \in {"resolved", "rejected"}
Rejected(e) == [state |-> "rejected", value |-> e]

\* the step is websocket.message handling a parsed response frame
ResponseStep ==
    /\ lastEvent'.op = "message"
    /\ lastEvent'.msg.parses
    /\ lastEvent'.msg.data.type = "response"

\* the step is websocket.open of connection c
OpenStep(c) == connState[c] = "unused" /\ connState'[c] = "open"

\* the step is websocket.close of connection c
CloseStep(c) == connState[c] # "closed" /\ connState'[c] = "closed"

\* the step is a call of sendCommandToThunderbird, its k-th
SendStep(k) == promise[k].state = "unissued" /\ promise'[k].state # "unissued"


\* C1: a call's future is resolved only by the response frame that carries
\* its own request id, and with exactly that frame's payload, whatever
\* other requests are outstanding and in whatever order responses arrive.
C1_OwnResponseOnly ==
    [][\A k \in ReqIds :
          (promise[k].state = "pending" /\ promise'[k].state = "resolved")
          => /\ ResponseStep
             /\ lastEvent'.msg.data.requestId = k
             /\ promise'[k].value = lastEvent'.msg.data.payload]_vars

\* two requests were outstanding together and were answered in reverse
\* order with different payloads
C1_Witness ==
    /\ promise[1].state = "resolved"
    /\ promise[2].state = "resolved"
    /\ promise[1].value # promise[2].value
    /\ lastEvent.op = "message"
    /\ lastEvent.msg.data.requestId = 1

\* C2: a call made while currentClient is null is rejected at once with
\* the no-client error; it adds no entry to pendingRequests, arms no timer
\* and transmits no frame.
C2_NoClientRejects ==
    [][\A k \in ReqIds :
          (SendStep(k) /\ currentClient = null)
          => /\ promise'[k] = Rejected(NoClientError)
             /\ pendingRequests' = pendingRequests
             /\ timers' = timers
             /\ outbox' = <<>>]_vars

\* a call was made with no client, after a client had come and gone
C2_Witness ==
    /\ lastEvent.op = "send"
    /\ lastEvent.conn = 0
    /\ promise[lastEvent.call] = Rejected(NoClientError)
    /\ Accepted # {}

\* C3: the resolve/reject pair of one call is invoked at most once, and a
\* settled future never changes again.
C3_SettledOnce ==
    /\ [](\A k \in ReqIds : settleCalls[k] <= 1)
    /\ [][\A k \in ReqIds : Settled(k) => promise'[k] = promise[k]]_vars

\* a second response with another payload arrived for a resolved request
C3_Witness ==
    \E k \in ReqIds :
        /\ promise[k].state = "resolved"
        /\ lastEvent.op = "message"
        /\ lastEvent.msg.data.type = "response"
        /\ lastEvent.msg.data.requestId = k
        /\ lastEvent.msg.data.payload # promise[k].value
        /\ FromCurrent(currentClient, lastEvent.conn)

\* C4: a response frame whose requestId has no entry in pendingRequests
\* changes nothing: the table, the timers, the current client, every
\* caller's outcome and the frames sent stay as they were.
C4_StrayResponseDropped ==
    [][(ResponseStep /\ lastEvent'.msg.data.requestId \notin DOMAIN pendingRequests)
          => /\ pendingRequests' = pendingRequests
             /\ timers' = timers
             /\ currentClient' = currentClient
             /\ promise' = promise
             /\ settleCalls' = settleCalls
             /\ outbox' = <<>>]_vars

\* a response arrived from the current client for a request that had
\* timed out, while another request was pending
C4_Witness ==
    \E k \in ReqIds :
        /\ promise[k] = Rejected(TimeoutError)
        /\ lastEvent.op = "message"
        /\ lastEvent.msg.data.type = "response"
        /\ lastEvent.msg.data.requestId = k
        /\ FromCurrent(currentClient, lastEvent.conn)
        /\ DOMAIN pendingRequests # {}

\* C5: a deadline that fires finds its request pending, removes the entry
\* and rejects the caller with the timeout error; a response processed
\* first removes the entry and cancels the timer, which is never armed
\* again for that request.
C5_DeadlineOrResponse ==
    [][\A r \in ReqIds :
          /\ (r \in DOMAIN timers /\ r \notin DOMAIN timers' /\ lastEvent'.op = "timeout")
             => /\ promise[r].state = "pending"
                /\ promise'[r] = Rejected(TimeoutError)
                /\ r \notin DOMAIN pendingRequests'
          /\ (promise[r].state = "pending" /\ promise'[r].state = "resolved")
             => /\ r \notin DOMAIN timers'
                /\ r \notin DOMAIN pendingRequests'
          /\ promise[r].state = "resolved" => r \notin DOMAIN timers']_vars

\* one request timed out and another was answered in time
C5_Witness ==
    \E r1, r2 \in ReqIds :
        /\ promise[r1] = Rejected(TimeoutError)
        /\ promise[r2].state = "resolved"
        /\ DOMAIN timers = {}

\* C6: every call's future is eventually settled and its entry removed,
\* when armed timers eventually fire.
C6_EventuallySettled ==
    \A k \in ReqIds :
        (promise[k].state = "pending") ~> (Settled(k) /\ k \notin DOMAIN pendingRequests)

\* a request is pending and the connection it was sent on is gone
C6_Witness ==
    \E k \in ReqIds :
        /\ promise[k].state = "pending"
        /\ currentClient = null
        /\ lastEvent.op = "close"

\* C7: accepting a connection while another is current closes the other
\* with code 1000 and reason 'New client connected' and makes the new one
\* current; the current connection is always none or the one accepted last.
C7_SingleClient ==
    /\ [](currentClient = null \/ currentClient.id = Cardinality(Accepted))
    /\ [][\A c \in ConnIds :
             OpenStep(c)
             => /\ currentClient'.id = c
                /\ currentClient # null
                   => /\ [id |-> currentClient.id, code |-> NormalClosure,
                          reason |-> KickReason] \in closeCalls'
                      /\ connState'[currentClient.id] \in {"closing", "closed"}]_vars

\* a second connection was accepted while the first was current
C7_Witness ==
    /\ lastEvent.op = "open"
    /\ lastEvent.conn = 2
    /\ connState[1] = "closing"
    /\ currentClient.id = 2

\* C8: a close event clears the current-connection slot exactly when it
\* is the current connection's; the close event of a superseded connection
\* leaves its successor current.
C8_StaleCloseKeepsCurrent ==
    [][\A c \in ConnIds :
          CloseStep(c)
          => IF currentClient # null /\ currentClient.id = c
             THEN currentClient' = null
             ELSE currentClient' = currentClient]_vars

\* the close event of the superseded first connection was delivered while
\* the second was current
C8_Witness ==
    /\ lastEvent.op = "close"
    /\ lastEvent.conn = 1
    /\ [id |-> 1, code |-> NormalClosure, reason |-> KickReason] \in closeCalls
    /\ currentClient # null
    /\ currentClient.id = 2

\* C9 as stated: the requests in flight on a connection are fulfilled and
\* removed when that connection disconnects or is superseded, so while no
\* connection is current pendingRequests is empty.
C9_DestroyedByConnectionLoss ==
    currentClient = null => DOMAIN pendingRequests = {}

\* C9 amended: disconnect and supersession leave pendingRequests, the
\* armed timers and the callers' futures unchanged; an entry leaves the
\* table only by a response frame or by its deadline.
C9_ConnectionLossKeepsPending ==
    [][/\ \A c \in ConnIds :
             (OpenStep(c) \/ CloseStep(c))
             => /\ pendingRequests' = pendingRequests
                /\ timers' = timers
                /\ promise' = promise
       /\ \A r \in ReqIds :
             (r \in DOMAIN pendingRequests /\ r \notin DOMAIN pendingRequests')
             => (ResponseStep \/ lastEvent'.op = "timeout")]_vars

\* a request sent on the first connection is still pending, with its
\* timer armed, right after the second connection superseded the first
C9_Witness ==
    \E r \in DOMAIN pendingRequests :
        /\ lastEvent.op = "open"
        /\ lastEvent.conn = 2
        /\ currentClient.id = 2
        /\ r \in DOMAIN timers
        /\ promise[r].state = "pending"

\* C10: once the worker has started, whenever no socket is connecting or
\* open a reconnect timer is armed.
C10_AlwaysReconnecting ==
    (attempts > 0 /\ LiveSockets = {}) => DOMAIN wTimeouts # {}


\* C11: on the worker at most one reconnect timer is armed and at most one
\* socket is connecting or open, in every state; the close of a connection
\* that had opened leaves exactly one timer armed and no socket, a close
\* arriving while a timer is armed arms no second one, and the firing of
\* the timer disarms it and makes one call of connectToCC.
C11_SingleReconnect ==
    [][/\ Cardinality(DOMAIN wTimeouts') <= 1
       /\ Cardinality(LiveSockets') <= 1
       /\ (wLast'.op = "close" /\ readyState[wLast'.sock] = "OPEN")
              => (Cardinality(DOMAIN wTimeouts') = 1 /\ LiveSockets' = {})
       /\ (wLast'.op = "close" /\ DOMAIN wTimeouts # {})
              => wTimeouts' = wTimeouts
       /\ wLast'.op = "timer"
              => /\ attempts' = attempts + 1
                 /\ DOMAIN wTimeouts \cap DOMAIN wTimeouts' = {}]_vars

\* a connection that had opened has closed, the one timer armed by it has
\* fired, and the one attempt it made is connecting
C11_Witness ==
    /\ wLast.op = "timer"
    /\ attempts = 2
    /\ readyState[1] = "CLOSED"
    /\ readyState[2] = "CONNECTING"
    /\ heartbeatInterval = 0
    /\ nextHandle >= 2
    /\ DOMAIN wTimeouts = {}


\* C12 as stated: every command of a known type that carries a requestId
\* and whose handler has finished was answered with exactly one response,
\* whatever happened to the connection meanwhile.
C12_ExactlyOneResponse ==
    \A i \in CmdIds :
        (execs[i].status = "done" /\ execs[i].type \in KnownTypes /\ execs[i].requestId # 0)
            => execs[i].sent = 1

\* C12: when the handler of a known command carrying a requestId finishes,
\* by returning or by raising, the worker sends one response frame with
\* that requestId on its current socket if that socket is open and sends
\* nothing if it is not; a finished command is never answered again.
C12_OneResponseIfConnected ==
    [][\A i \in CmdIds :
         /\ (execs[i].status = "running" /\ execs'[i].status = "done"
                /\ execs[i].requestId # 0)
              => IF ws # 0 /\ readyState[ws] = "OPEN"
                 THEN /\ Len(wOutbox') = 1
                      /\ wOutbox'[1].sock = ws
                      /\ wOutbox'[1].frame.type = "response"
                      /\ wOutbox'[1].frame.requestId = execs[i].requestId
                      /\ wOutbox'[1].frame.payload.success = (wLast'.error = FALSE
                              /\ wOutbox'[1].frame.payload.error = Undefined)
                      /\ execs'[i].sent = 1
                 ELSE /\ wOutbox' = <<>>
                      /\ execs'[i].sent = 0
         /\ execs[i].status = "done" => execs'[i] = execs[i]
         /\ execs'[i].sent <= 1]_vars

\* the first command was answered on an open socket; the socket closed
\* while the handler of the second ran, and its response was dropped
C12_Witness ==
    /\ wLast.op = "done"
    /\ execs[1] = [type |-> "list_accounts", requestId |-> 1, status |-> "done", sent |-> 1]
    /\ execs[2] = [type |-> "list_accounts", requestId |-> 2, status |-> "done", sent |-> 0]
    /\ LiveSockets = {}
    /\ wOutbox = <<>>

\* C13: a command frame whose type is neither a known command nor a control
\* frame, carrying a requestId, is answered in the same step with one
\* response frame on the receiving socket, with the same requestId and the
\* payload {success: false, error: 'Unknown command type', commandType}.
C13_UnknownTypeAnswered ==
    [][(/\ wLast'.op = "message"
        /\ wIn'.parses
        /\ wIn'.data.type \notin KnownTypes \cup SystemTypes
        /\ wIn'.data.requestId # 0)
       => /\ Len(wOutbox') = 1
          /\ wOutbox'[1].sock = wLast'.sock
          /\ wOutbox'[1].frame.type = "response"
          /\ wOutbox'[1].frame.requestId = wIn'.data.requestId
          /\ wOutbox'[1].frame.payload =
                 [success |-> FALSE, error |-> "Unknown command type",
                  commandType |-> wIn'.data.type]]_vars

\* the second command received has an unknown type and was answered
C13_Witness ==
    /\ wLast.op = "message"
    /\ wIn.parses
    /\ wIn.data.type = "frobnicate"
    /\ wIn.data.requestId = 2
    /\ execs[2].status = "done"
    /\ execs[2].sent = 1
    /\ Len(wOutbox) = 1
    /\ wOutbox[1].frame.payload.commandType = "frobnicate"


\* C14: a heartbeat frame from the current connection is answered with
\* exactly one heartbeat_ack frame on that connection, and leaves
\* pendingRequests, the timers, the callers and the current connection as
\* they were.
C14_HeartbeatAcked ==
    [][(/\ lastEvent'.op = "message"
        /\ lastEvent'.msg.parses
        /\ lastEvent'.msg.data.type = "heartbeat"
        /\ currentClient.id = lastEvent'.conn)
       => /\ Len(outbox') = 1
          /\ outbox'[1].conn = lastEvent'.conn
          /\ outbox'[1].frame.type = "heartbeat_ack"
          /\ pendingRequests' = pendingRequests
          /\ currentClient' = currentClient
          /\ UNCHANGED <<timers, promise, connState>>]_vars

\* a heartbeat of the current connection was acknowledged while a request
\* was pending
C14_Witness ==
    /\ lastEvent.op = "message"
    /\ lastEvent.msg.data.type = "heartbeat"
    /\ lastEvent.conn = currentClient.id
    /\ DOMAIN pendingRequests # {}
    /\ Len(outbox) = 1
    /\ outbox[1].frame.type = "heartbeat_ack"

\* C17: a call that registers an entry does so under an id that is not in
\* pendingRequests, adds exactly that entry and leaves every outstanding
\* entry as it was; a call whose transmit fails leaves the table as it
\* was; and no two entries of the table belong to the same call.
C17_FreshIdNeverOverwrites ==
    [][/\ \A k \in ReqIds :
            (SendStep(k) /\ lastEvent'.op = "send" /\ outbox' # <<>>)
               => LET id == outbox'[1].frame.requestId IN
                  /\ id \notin DOMAIN pendingRequests
                  /\ DOMAIN pendingRequests' = DOMAIN pendingRequests \cup {id}
                  /\ pendingRequests'[id].resolve = k
                  /\ \A r \in DOMAIN pendingRequests :
                         pendingRequests'[r] = pendingRequests[r]
       /\ lastEvent'.op = "sendfail" => pendingRequests' = pendingRequests
       /\ \A r1, r2 \in DOMAIN pendingRequests' :
            pendingRequests'[r1].resolve = pendingRequests'[r2].resolve => r1 = r2]_vars

\* the second call registered its entry while the first was outstanding
C17_Witness ==
    /\ lastEvent.op = "send"
    /\ lastEvent.call = 2
    /\ DOMAIN pendingRequests = {1, 2}
    /\ pendingRequests[1].resolve = 1
    /\ pendingRequests[2].resolve = 2
    /\ outbox[1].frame.requestId = 2

\* C18: a text frame that does not parse, or whose type is not register,
\* heartbeat or response, has no effect: the current connection,
\* pendingRequests, the timers, every caller and every connection's state
\* stay as they were and nothing is sent.
C18_UnhandledFrameDiscarded ==
    [][(/\ lastEvent'.op = "message"
        /\ \/ ~lastEvent'.msg.parses
           \/ lastEvent'.msg.data.type \notin {"register", "heartbeat", "response"})
       => /\ outbox' = <<>>
          /\ UNCHANGED <<currentClient, pendingRequests, timers, promise, settleCalls,
                         connState, closeCalls>>]_vars

\* the current connection sent a frame that does not parse while a request
\* was pending; it is still current and open
C18_Witness ==
    /\ lastEvent.op = "message"
    /\ ~lastEvent.msg.parses
    /\ lastEvent.conn = currentClient.id
    /\ connState[lastEvent.conn] = "open"
    /\ DOMAIN pendingRequests # {}
    /\ outbox = <<>>

\* a register frame of the current connection is being handled
RegisterStep ==
    /\ lastEvent'.op = "message"
    /\ lastEvent'.msg.parses
    /\ lastEvent'.msg.data.type = "register"
    /\ currentClient.id = lastEvent'.conn

\* C19: a connection is installed with no identity, whatever the identity
\* of the connection it supersedes; a register frame of the current
\* connection sets the identity announced in it and is answered with one
\* registered frame on that connection; no other step sets an identity.
C19_IdentityByRegister ==
    [][/\ \A c \in ConnIds :
            OpenStep(c) => currentClient' = [id |-> c, addonId |-> Undefined]
       /\ RegisterStep
            => /\ currentClient' = [id |-> lastEvent'.conn,
                                    addonId |-> lastEvent'.msg.data.addonId]
               /\ Len(outbox') = 1
               /\ outbox'[1].conn = lastEvent'.conn
               /\ outbox'[1].frame.type = "registered"
       /\ (~RegisterStep /\ currentClient'.addonId # Undefined)
            => currentClient' = currentClient]_vars

\* the second connection, which superseded the first, has registered
C19_Witness ==
    /\ lastEvent.op = "message"
    /\ lastEvent.msg.data.type = "register"
    /\ lastEvent.conn = 2
    /\ connState[1] # "unused"
    /\ currentClient = [id |-> 2, addonId |-> "addon@a"]
    /\ Len(outbox) = 1
    /\ outbox[1].frame.type = "registered"

\* C20: the step that accepts a connection installs it as current and
\* sends on it one welcome frame carrying its id; a welcome frame is sent
\* only by that step, and every other frame goes to a connection accepted
\* by an earlier step, so after its welcome.
C20_WelcomeFirst ==
    [][/\ \A c \in ConnIds :
            OpenStep(c)
               => /\ currentClient'.id = c
                  /\ Len(outbox') = 1
                  /\ outbox'[1].conn = c
                  /\ outbox'[1].frame.type = "welcome"
                  /\ outbox'[1].frame.clientId = c
       /\ \A i \in 1..Len(outbox') :
            IF outbox'[i].frame.type = "welcome"
            THEN OpenStep(outbox'[i].conn)
            ELSE connState[outbox'[i].conn] # "unused"]_vars

\* a command frame went out on the second connection, accepted and
\* welcomed before
C20_Witness ==
    /\ lastEvent.op = "send"
    /\ lastEvent.conn = 2
    /\ currentClient.id = 2
    /\ Len(outbox) = 1
    /\ outbox[1].conn = 2
    /\ outbox[1].frame.type \in CmdTypes
    /\ outbox[1].frame.requestId # 0


C16_RequiredFieldsValidated ==
    [][\A k \in ReqIds :
         (/\ SendStep(k)
          /\ lastTool'.call = k
          /\ ~(Required(lastTool'.name) \subseteq lastTool'.args))
         => /\ outbox' = <<>>
            /\ pendingRequests' = pendingRequests]_vars


\* C21: the step in which a socket opens sends one register frame on it,
\* leaves exactly one heartbeat interval armed, of 30000 ms, and leaves no
\* reconnect timer armed or stored; a register frame is sent only by that
\* step, and any other frame goes to a socket that was open before the
\* step, so after its register frame.
C21_RegisterThenHeartbeat ==
    [][/\ wLast'.op = "open"
            => /\ Len(wOutbox') = 1
               /\ wOutbox'[1].sock = wLast'.sock
               /\ wOutbox'[1].frame.type = "register"
               /\ wOutbox'[1].frame.addonId # Undefined
               /\ heartbeatInterval' # 0
               /\ DOMAIN wIntervals' = {heartbeatInterval'}
               /\ wIntervals'[heartbeatInterval'] = 30000
               /\ reconnectTimeout' = 0
               /\ DOMAIN wTimeouts' = {}
       /\ \A i \in 1..Len(wOutbox') :
            IF wOutbox'[i].frame.type = "register"
            THEN wLast'.op = "open" /\ readyState[wOutbox'[i].sock] = "CONNECTING"
            ELSE readyState[wOutbox'[i].sock] = "OPEN"]_vars

\* the second socket has just opened, after a reconnect
C21_Witness ==
    /\ wLast.op = "open"
    /\ wLast.sock = 2
    /\ readyState[1] = "CLOSED"
    /\ readyState[2] = "OPEN"
    /\ Len(wOutbox) = 1
    /\ wOutbox[1].frame.type = "register"
    /\ DOMAIN wTimeouts = {}


\* C22: when an open socket closes, with or without an error event before
\* the close event, the worker has no socket afterwards, its heartbeat
\* interval is cancelled, and exactly one reconnect timer is armed, of
\* 5000 ms, and stored in reconnectTimeout.
C22_CloseSchedulesReconnect ==
    [][(wLast'.op = "close" /\ readyState[wLast'.sock] = "OPEN")
       => /\ ws' = 0
          /\ readyState'[wLast'.sock] = "CLOSED"
          /\ LiveSockets' = {}
          /\ heartbeatInterval' = 0
          /\ DOMAIN wIntervals' = {}
          /\ reconnectTimeout' # 0
          /\ DOMAIN wTimeouts' = {reconnectTimeout'}
          /\ wTimeouts'[reconnectTimeout'] = 5000]_vars

\* the first socket had opened and then reported an error and closed
C22_Witness ==
    /\ wLast.op = "close"
    /\ wLast.error
    /\ wLast.sock = 1
    /\ attempts = 1
    /\ nextHandle = 2
    /\ heartbeatInterval = 0
    /\ DOMAIN wTimeouts = {2}


\* C23: when the handler of a command carrying a requestId raises an error
\* with message m and the worker's socket is open, the response frame sent
\* carries that requestId and a payload with success false and error m.
C23_RaisedErrorReported ==
    [][\A i \in CmdIds :
         (/\ execs[i].status = "running" /\ execs'[i].status = "done"
          /\ execs[i].requestId # 0
          /\ wLast'.error
          /\ ws # 0 /\ readyState[ws] = "OPEN")
         => /\ wLast'.raised # Undefined
            /\ Len(wOutbox') = 1
            /\ wOutbox'[1].frame.type = "response"
            /\ wOutbox'[1].frame.requestId = execs[i].requestId
            /\ wOutbox'[1].frame.payload.success = FALSE
            /\ wOutbox'[1].frame.payload.error = wLast'.raised]_vars

\* the handler of the second command raised "denied" and the response
\* went out
C23_Witness ==
    /\ wLast.op = "done"
    /\ wLast.raised = "denied"
    /\ execs[2].status = "done"
    /\ execs[2].requestId = 2
    /\ execs[2].sent = 1
    /\ Len(wOutbox) = 1
    /\ wOutbox[1].frame.requestId = 2
    /\ wOutbox[1].frame.payload.error = "denied"


\* C24: a step removes at most one entry of pendingRequests and cancels no
\* timer but that entry's; every entry that stays keeps its callbacks, its
\* armed timer and its caller's unsettled future, whether the step is a
\* response, a timeout, a failed transmit or the sending of a new request.
C24_RequestsIndependent ==
    [][/\ Cardinality(DOMAIN pendingRequests \ DOMAIN pendingRequests') <= 1
       /\ \A r \in DOMAIN pendingRequests \cap DOMAIN pendingRequests' :
            /\ pendingRequests'[r] = pendingRequests[r]
            /\ pendingRequests[r].timeout \in DOMAIN timers'
            /\ timers'[pendingRequests[r].timeout] = timers[pendingRequests[r].timeout]
            /\ promise'[pendingRequests[r].resolve] = promise[pendingRequests[r].resolve]
       /\ DOMAIN timers \ DOMAIN timers'
            \subseteq {pendingRequests[r].timeout :
                          r \in DOMAIN pendingRequests \ DOMAIN pendingRequests'}
       /\ lastEvent'.op = "sendfail"
            => (pendingRequests' = pendingRequests /\ timers' = timers)]_vars

\* the second request was answered while the first, sent earlier, is still
\* pending with its timer armed
C24_Witness ==
    /\ lastEvent.op = "message"
    /\ lastEvent.msg.data.requestId = 2
    /\ promise[2].state = "resolved"
    /\ promise[1].state = "pending"
    /\ DOMAIN pendingRequests = {1}
    /\ DOMAIN timers = {1}


\* C25: an error envelope carries the error message, and carries the hint
\* exactly when the failure is that no worker is connected.
C25_HintOnlyWhenNoWorker ==
    (lastTool.op = "return" /\ lastTool.envelope.isError)
       => /\ lastTool.envelope.error # Undefined
          /\ (lastTool.envelope.hint # Undefined)
                <=> (/\ lastTool.call # 0
                     /\ promise[lastTool.call].value = NoClientError)


\* C26: a request that is sent has its deadline timer armed in the same
\* step, with 60000 ms when the command is search_emails and 30000 ms
\* otherwise.
C26_DeadlineByTool ==
    [][\A k \in ReqIds :
         (SendStep(k) /\ outbox' # <<>>)
         => LET f == outbox'[1].frame IN
            /\ f.requestId \in DOMAIN pendingRequests'
            /\ pendingRequests'[f.requestId].timeout \in DOMAIN timers'
            /\ timers'[pendingRequests'[f.requestId].timeout]
                  = IF f.type = "search_emails" THEN 60000 ELSE 30000]_vars

\* a search_emails request and a list_accounts request are pending, each
\* with its own deadline
C26_Witness ==
    /\ lastEvent.op = "send"
    /\ DOMAIN pendingRequests = {1, 2}
    /\ Len(outbox) = 1
    /\ outbox[1].frame.type = "search_emails"
    /\ timers[1] = 30000
    /\ timers[2] = 60000


\* C27: in every state the status endpoint reports connected exactly when
\* some accepted connection is neither superseded nor closed, reports the
\* null client exactly when not connected, and when connected reports the
\* id and identity of that one connection.
C27_StatusReportsCurrent ==
    LET st == status(currentClient) IN
    /\ st.connected <=> (\E c \in ConnIds : connState[c] = "open")
    /\ (st.client = null) <=> ~st.connected
    /\ st.connected
         => /\ st.client.id \in ConnIds
            /\ connState[st.client.id] = "open"
            /\ \A c \in ConnIds \ {st.client.id} : connState[c] # "open"
            /\ st.client.addonId = currentClient.addonId

\* the second connection superseded the first and registered, and the
\* endpoint reports the second
C27_Witness ==
    /\ connState[1] \in {"closing", "closed"}
    /\ connState[2] = "open"
    /\ status(currentClient) = [connected |-> TRUE,
                                client |-> [id |-> 2, addonId |-> "addon@a"]]


\* C28: in the step in which a response resolves a read_email call, the
\* handler returns a non-error envelope.  When the payload has a message
\* marked isHtml whose body is a string and the conversion does not raise,
\* the envelope carries the payload with the body converted and the isHtml
\* flag removed; otherwise, and in particular when the conversion raises,
\* it carries the payload exactly as received.  The step removes the
\* call's entry from pendingRequests, as the response case does, and
\* changes no other entry.
C28_HtmlBodyConverted ==
    [][\A k \in ReqIds :
         (promise[k].state = "pending" /\ promise'[k].state = "resolved")
         => LET v == promise'[k].value
                e == lastTool'.envelope IN
            /\ lastTool'.op = "return"
            /\ lastTool'.call = k
            /\ ~e.isError
            /\ IF /\ v.message = "object" /\ v.isHtml = "true"
                  /\ v.body # NotAString /\ ~lastTool'.threw
               THEN /\ v.body = "<p>hi</p>"
                    /\ e.result = [success |-> v.success, message |-> "object",
                                   body |-> "hi", isHtml |-> "absent"]
               ELSE e.result = v
            /\ DOMAIN pendingRequests' = DOMAIN pendingRequests \ {k}
            /\ \A r \in DOMAIN pendingRequests' :
                   pendingRequests'[r] = pendingRequests[r]]_vars

\* the conversion raised: the HTML body and its flag were returned as
\* received, in a non-error envelope
C28_Witness ==
    /\ lastTool.op = "return"
    /\ lastTool.threw
    /\ ~lastTool.envelope.isError
    /\ lastTool.envelope.result = EmailResult("true", "object", HtmlBody, "true")
    /\ promise[lastTool.call].state = "resolved"
    /\ lastTool.call \notin DOMAIN pendingRequests


\* the parts of a tree in depth-first pre-order: a part, then the parts of
\* its sub-trees from left to right
RECURSIVE PreOrder(_), PreOrderFrom(_, _)
PreOrder(p) == <<p>> \o PreOrderFrom(p.parts, 1)
PreOrderFrom(parts, i) ==
    IF i > Len(parts) THEN <<>>
    ELSE PreOrder(parts[i]) \o PreOrderFrom(parts, i + 1)

PlainTypes == {"text/plain", "text/plain; charset=utf-8"}
HtmlTypes == {"text/html", "text/html; charset=utf-8"}

\* C29: extractTextFromPart returns the body of the first part, in
\* depth-first pre-order, whose content type starts with text/plain or
\* text/html and whose body is not empty, with html true exactly when that
\* part is text/html; it returns null when the tree has no such part.
C29_FirstTextPartPreOrder ==
    extracted.ran
       => LET order == PreOrder(part)
              hits == {i \in 1..Len(order) :
                          /\ order[i].contentType \in PlainTypes \cup HtmlTypes
                          /\ order[i].body # ""}
          IN IF hits = {}
             THEN extracted.result = [found |-> FALSE, text |-> "", html |-> FALSE]
             ELSE LET first == order[CHOOSE i \in hits : \A j \in hits : i <= j] IN
                  /\ extracted.result.found
                  /\ extracted.result.text = first.body
                  /\ extracted.result.html = (first.contentType \in HtmlTypes)

\* an HTML part nested in the first sub-tree comes before a plain part that
\* is nearer the root, and is the one returned
C29_Witness ==
    /\ part = Part("multipart/mixed", "",
                   <<Part("multipart/mixed", "", <<Part("text/html", "h", <<>>)>>),
                     Part("text/plain; charset=utf-8", "p", <<>>)>>)
    /\ extracted = [ran |-> TRUE, result |-> [found |-> TRUE, text |-> "h", html |-> TRUE]]


\* C30: in every state the entries of pendingRequests, the unsettled
\* futures of calls and the armed deadline timers correspond one to one:
\* every entry belongs to a call whose future is pending and whose timer
\* is armed, every armed timer is the timer of an entry, and every pending
\* future has an entry.
C30_EntryIffPendingAndArmed ==
    /\ \A r \in DOMAIN pendingRequests :
          /\ promise[pendingRequests[r].resolve].state = "pending"
          /\ pendingRequests[r].timeout \in DOMAIN timers
    /\ \A h \in DOMAIN timers :
          \E r \in DOMAIN pendingRequests : pendingRequests[r].timeout = h
    /\ \A k \in ReqIds :
          promise[k].state = "pending"
             => \E r \in DOMAIN pendingRequests : pendingRequests[r].resolve = k
    /\ Cardinality(DOMAIN pendingRequests) = Cardinality(DOMAIN timers)

\* the first request has timed out while the second is still pending: one
\* entry, one armed timer, one unsettled future
C30_Witness ==
    /\ lastEvent.op = "timeout"
    /\ promise[1].state = "rejected"
    /\ promise[2].state = "pending"
    /\ DOMAIN pendingRequests = {2}
    /\ DOMAIN timers = {2}


\* C31: a frame from a connection that is not the current one is ignored
\* entirely: it resolves no pending request, changes no recorded identity
\* and gets no reply, whatever its type.
C31_StaleFrameIgnored ==
    [][(/\ lastEvent'.op = "message"
        /\ (currentClient = null \/ currentClient.id # lastEvent'.conn))
          => /\ pendingRequests' = pendingRequests
             /\ timers' = timers
             /\ promise' = promise
             /\ settleCalls' = settleCalls
             /\ currentClient' = currentClient
             /\ outbox' = <<>>]_vars

\* the superseded first connection, still being closed, delivered a
\* response frame for a request that is pending while the second is current
C31_Witness ==
    /\ lastEvent.op = "message"
    /\ lastEvent.conn = 1
    /\ connState[1] = "closing"
    /\ currentClient # null
    /\ currentClient.id = 2
    /\ lastEvent.msg.parses
    /\ lastEvent.msg.data.type = "response"
    /\ lastEvent.msg.data.requestId \in DOMAIN pendingRequests
    /\ promise[lastEvent.msg.data.requestId].state = "pending"


\* C33: when transmitting the command frame raises, the entry just
\* registered is removed, its deadline timer is cancelled and the caller is
\* rejected with the transmit error: pendingRequests and the armed timers
\* are as before the call, and no timer or entry of that request exists
\* afterwards, so its deadline never fires.
C33_TransmitErrorUndone ==
    /\ [][\A k \in ReqIds :
             (SendStep(k) /\ lastEvent'.op = "sendfail")
             => /\ pendingRequests' = pendingRequests
                /\ timers' = timers
                /\ promise'[k] = Rejected(SendError)
                /\ settleCalls'[k] = 1
                /\ outbox' = <<>>]_vars
    /\ [](\A k \in ReqIds :
             promise[k] = Rejected(SendError)
             => (k \notin DOMAIN timers /\ k \notin DOMAIN pendingRequests))

\* the transmission of the second call failed while the first call was
\* still pending with its timer armed
C33_Witness ==
    /\ lastEvent.op = "sendfail"
    /\ lastEvent.call = 2
    /\ promise[2] = Rejected(SendError)
    /\ promise[1].state = "pending"
    /\ DOMAIN pendingRequests = {1}
    /\ DOMAIN timers = {1}


\* C35: a tool call whose name is not one of the declared tools returns an
\* error envelope with the message 'Unknown tool: <name>'; it sends no
\* frame, creates no pending request, arms no timer and makes no call of
\* sendCommandToThunderbird, whether or not a worker is connected.  Only a
\* declared tool makes such a call.
C35_UnknownToolRejected ==
    [][/\ lastEvent'.op = "tool"
          => /\ lastTool'.op = "return"
             /\ lastTool'.name \in {"no_such_tool", "No Thunderbird client"}
             /\ lastTool'.envelope.isError
             /\ lastTool'.envelope.result = Undefined
             /\ lastTool'.name = "no_such_tool"
                  => lastTool'.envelope.error = "Unknown tool: no_such_tool"
             /\ lastTool'.name = "No Thunderbird client"
                  => lastTool'.envelope.error = "Unknown tool: No Thunderbird client"
             /\ outbox' = <<>>
             /\ pendingRequests' = pendingRequests
             /\ timers' = timers
             /\ promise' = promise
             /\ currentClient' = currentClient
       /\ lastEvent'.op \in {"send", "sendfail"}
          => lastTool'.name = "read_email_raw"]_vars

\* an unknown tool was called while a worker was connected and a request
\* of an earlier call was pending
C35_Witness ==
    /\ lastEvent.op = "tool"
    /\ lastTool.name = "no_such_tool"
    /\ lastTool.envelope.isError
    /\ currentClient # null
    /\ DOMAIN pendingRequests # {}
    /\ DOMAIN timers = DOMAIN pendingRequests


\* C36: in every state of the worker at most one heartbeat interval is
\* running, it is the one heartbeatInterval names, and one is running only
\* while the worker's socket is open; hence none remains after a close
\* event and a reopening leaves one.
C36_OneHeartbeatWhileConnected ==
    /\ Cardinality(DOMAIN wIntervals) <= 1
    /\ DOMAIN wIntervals # {}
         => /\ ws # 0
            /\ readyState[ws] = "OPEN"
            /\ DOMAIN wIntervals = {heartbeatInterval}
    /\ (ws = 0 \/ wLast.op = "close") => DOMAIN wIntervals = {}

\* the worker lost its first connection and opened a second: one interval
\* is running, and it is not the one the first connection started
C36_Witness ==
    /\ wLast.op = "open"
    /\ wLast.sock = 2
    /\ readyState[1] = "CLOSED"
    /\ readyState[2] = "OPEN"
    /\ Cardinality(DOMAIN wIntervals) = 1
    /\ heartbeatInterval \in DOMAIN wIntervals
    /\ heartbeatInterval > 1


\* C32: a pending request is not bound to the connection its command frame
\* was sent on: a response frame carrying its id that arrives from the
\* current connection, when that is another connection than the one the
\* frame was sent on, resolves the request with that frame's payload and
\* removes its entry and its timer.
C32_ResolvedAcrossConnections ==
    [][\A k \in ReqIds :
          (/\ ResponseStep
           /\ lastEvent'.msg.data.requestId = k
           /\ promise[k].state = "pending"
           /\ currentClient # null
           /\ currentClient.id = lastEvent'.conn
           /\ sentOn[k] # 0
           /\ sentOn[k] # lastEvent'.conn)
          => /\ promise'[k] = [state |-> "resolved", value |-> lastEvent'.msg.data.payload]
             /\ k \notin DOMAIN pendingRequests'
             /\ k \notin DOMAIN timers']_vars

\* the first request was sent on the first connection and resolved by a
\* response the second connection delivered
C32_Witness ==
    /\ sentOn[1] = 1
    /\ lastEvent.op = "message"
    /\ lastEvent.conn = 2
    /\ lastEvent.msg.data.requestId = 1
    /\ currentClient # null
    /\ currentClient.id = 2
    /\ promise[1] = [state |-> "resolved", value |-> lastEvent.msg.data.payload]
    /\ 1 \notin DOMAIN pendingRequests


\* the worker's socket is open
Connected == ws # 0 /\ readyState[ws] = "OPEN"

\* the handler awaited for command i finishes in this step
DoneStep(i) == execs[i].status = "running" /\ execs'[i].status = "done"

\* every frame sent in this step went out on the worker's socket, which is
\* open; a step that finds the socket not open sends nothing and counts
\* nothing as sent
SendsOnlyWhileOpen ==
    /\ \A j \in DOMAIN wOutbox' :
          /\ wOutbox'[j].sock # 0
          /\ wOutbox'[j].sock = ws'
          /\ readyState'[wOutbox'[j].sock] = "OPEN"
    /\ (wLast'.op \in {"done", "beat"} /\ ~Connected)
          => /\ wOutbox' = <<>>
             /\ \A i \in CmdIds : execs'[i].sent = execs[i].sent

\* nothing is kept for later: an opening socket carries the register frame
\* only, a heartbeat tick at most one heartbeat, and a finished command is
\* never answered afterwards
NothingQueued ==
    /\ wLast'.op = "open" => \A j \in DOMAIN wOutbox' : wOutbox'[j].frame.type = "register"
    /\ wLast'.op = "beat" => \A j \in DOMAIN wOutbox' : wOutbox'[j].frame.type = "heartbeat"
    /\ \A i \in CmdIds : execs[i].status = "done" => execs'[i] = execs[i]

\* C34 as stated: the worker transmits only while its socket is open, a
\* frame produced otherwise is dropped and not queued, and a command whose
\* executor finishes after the connection it arrived on was lost is never
\* answered.
C34_NeverAnsweredAfterLoss ==
    [][/\ SendsOnlyWhileOpen
       /\ NothingQueued
       /\ \A i \in CmdIds :
             (DoneStep(i) /\ arrivedOn[i] # 0 /\ readyState[arrivedOn[i]] = "CLOSED")
             => (wOutbox' = <<>> /\ execs'[i].sent = 0)]_vars

\* C34: the worker transmits only while its socket is open, and a frame
\* produced otherwise is dropped and not queued.  A command whose executor
\* finishes while the worker has no open socket is never answered; one
\* whose executor finishes after the connection it arrived on was lost
\* and the worker has opened a new one is answered once, on the new socket.
C34_AnsweredOnlyWhileOpen ==
    [][/\ SendsOnlyWhileOpen
       /\ NothingQueued
       /\ \A i \in CmdIds :
             (DoneStep(i) /\ arrivedOn[i] # 0 /\ readyState[arrivedOn[i]] = "CLOSED")
             => IF Connected
                THEN /\ Len(wOutbox') = 1
                     /\ wOutbox'[1].sock = ws
                     /\ ws # arrivedOn[i]
                     /\ wOutbox'[1].frame.type = "response"
                     /\ wOutbox'[1].frame.requestId = execs[i].requestId
                     /\ execs'[i].sent = 1
                ELSE /\ wOutbox' = <<>>
                     /\ execs'[i].sent = 0]_vars

\* a command arrived on the first socket and its executor finished while
\* the worker was disconnected; the worker has now opened a second socket
\* and sent the register frame only
C34_Witness ==
    /\ wLast.op = "open"
    /\ wLast.sock = 2
    /\ readyState[2] = "OPEN"
    /\ arrivedOn[1] = 1
    /\ execs[1].status = "done"
    /\ execs[1].requestId # 0
    /\ execs[1].sent = 0
    /\ Len(wOutbox) = 1
    /\ wOutbox[1].frame.type = "register"


\* file is a path below the directory dir
Inside(dir, file) ==
    LET d == normalizeString(dir.segs, dir.abs) IN
    /\ file.abs = dir.abs
    /\ Len(file.segs) > Len(d)
    /\ SubSeq(file.segs, 1, Len(d)) = d

\* C37: every file read_email_attachments has written lies inside
\* downloadPath, whatever file names the worker returned, and the files
\* reported are exactly the files written, each with its decoded size.
C37_WritesInsideDownloadPath ==
    savedFiles.ran
       => /\ \A p \in DOMAIN disk : Inside(download.downloadPath, p)
          /\ {savedFiles.files[j].path : j \in DOMAIN savedFiles.files} = DOMAIN disk
          /\ \A j \in DOMAIN savedFiles.files :
                disk[savedFiles.files[j].path] = savedFiles.files[j].size

====
